---- MODULE Spec2Model ----
(***************************************************************************)
(* Model of the SQL execution worker of src/sql-worker.js (the Azure VM    *)
(* deployment, lines 229-502): the BullMQ processor that resolves a        *)
(* notebook's database, loads the query list from S3, runs the queries one *)
(* after another through the /api/executequery endpoint, and the           *)
(* 'completed' / 'failed' listeners that update autonomis_job_monitoring.  *)
(*                                                                         *)
(* JavaScript values: a string is a sequence of its parts (a template      *)
(* string `query_${k}` is <<"query_", k>>), and a value that is undefined, *)
(* null or the empty string (all falsy) is the empty sequence.             *)
(***************************************************************************)
EXTENDS Integers, Sequences, FiniteSets, TLC

VARIABLES
    hasSecret,   \* process.env.WORKER_SECRET_KEY is set
    nextJobId,   \* the id the queue gives to the next job
    now,         \* the clock read by new Date()
    proc,        \* per worker: the processor's position and local variables
    probe,       \* per worker: the external calls made for the current job
    eventLog,    \* the 'completed' / 'failed' events the Worker has emitted
    jobLog,      \* per job id: how the processor ended
    table,       \* the rows of table autonomis_job_monitoring
    updates,     \* per job id: the updateMonitoringData call of its event
    lost         \* per notebook: a monitoring update of it hit a store failure

vars == <<hasSecret, nextJobId, now, proc, probe, eventLog, jobLog, table, updates, lost>>

----------------------------------------------------------------------------
\* Bounds of the model.

\* statements in an artifact
MaxLen == 2
\* jobs delivered in a run of Spec
MaxJobs == 1
\* jobs delivered in a run of SpecSeq
MaxSeqJobs == 6
\* jobs delivered in a run of SpecRace
MaxRaceJobs == 2
\* jobs delivered in a run of SpecConc
MaxConcJobs == 2

\* Program constants.
HistoryLimit == 5
SleepMs == 200
TimeoutMs == 300000

Absent == <<>>
Falsy(v) == v = Absent

Workers == {"w1", "w2"}
Notebooks == {<<"nb1">>, <<"nb2">>}
Larger(a, b) == IF a >= b THEN a ELSE b
JobIds == 1..Larger(MaxJobs, MaxSeqJobs)

----------------------------------------------------------------------------
\* Job payloads (job.data).

JobData(notebooks) ==
    [s3Key : {Absent, <<"queries.json">>}, notebookId : {Absent} \cup notebooks]
NoJob == [id |-> 0, data |-> [s3Key |-> Absent, notebookId |-> Absent]]

\* The checks at the head of processor: the error thrown, or "" for none.
MissingS3KeyOnly(data) ==
    IF Falsy(data.s3Key) THEN "MissingS3Key" ELSE ""

Validate(data) ==
    IF Falsy(data.s3Key) THEN "MissingS3Key"
    ELSE IF Falsy(data.notebookId) THEN "MissingNotebookId"
    ELSE ""

----------------------------------------------------------------------------
\* getDatabaseConfig: what the autonomis_user_notebook lookup can give.

ConfigRows ==
    { "select_error",          \* error set: no such notebook (.single()), store down
      "no_notebook",           \* data is null
      "no_database",           \* autonomis_user_database is null
      "no_data_source",        \* autonomis_data_source is null
      "bad_connection_string", \* JSON.parse(connection_string) throws
      "no_name",               \* name is null: name.toLowerCase() throws
      "PostgreSQL" }           \* a complete row with this data source name

ToLowerCase(name) ==
    CASE name = "PostgreSQL" -> "postgresql"
      [] OTHER -> name

\* The errors getDatabaseConfig throws.
ConfigErrors ==
    {"FetchConfigError", "NoCompleteConfig", "ConnectionStringSyntaxError", "NameTypeError"}

getDatabaseConfig(row) ==
    CASE row = "select_error" -> [ok |-> FALSE, error |-> "FetchConfigError", dbType |-> ""]
      [] row \in {"no_notebook", "no_database", "no_data_source"} ->
            [ok |-> FALSE, error |-> "NoCompleteConfig", dbType |-> ""]
      [] row = "bad_connection_string" ->
            [ok |-> FALSE, error |-> "ConnectionStringSyntaxError", dbType |-> ""]
      [] row = "no_name" -> [ok |-> FALSE, error |-> "NameTypeError", dbType |-> ""]
      [] OTHER -> [ok |-> TRUE, error |-> "", dbType |-> ToLowerCase(row)]

----------------------------------------------------------------------------
\* The artifact: what s3Client.send, transformToString and JSON.parse can give.

StringItem == [type |-> "string", query |-> Absent, id |-> Absent, variableName |-> Absent]
NullItem == [type |-> "null", query |-> Absent, id |-> Absent, variableName |-> Absent]
ObjectItem(q, i, v) == [type |-> "object", query |-> q, id |-> i, variableName |-> v]

Items ==
    { StringItem,
      NullItem,
      ObjectItem(<<"SELECT 1">>, Absent, Absent),
      ObjectItem(<<"SELECT 1">>, <<"q_a">>, <<"v_a">>),
      ObjectItem(Absent, Absent, <<"v_a">>) }

SeqsUpTo(S, n) == UNION { [1..k -> S] : k \in 0..n }

Fetched(items, n) ==
    [kind : {"fetch_error", "decode_error", "invalid_json", "not_list"}, items : {<<>>}]
    \cup [kind : {"list"}, items : SeqsUpTo(items, n)]

\* item.id || `query_${index + 1}` and item.variableName || `result_${index + 1}`
\* (a string item has neither property).
QueryId(item, index) ==
    IF Falsy(item.id) THEN <<"query_", index + 1>> ELSE item.id

VariableNameZeroBased(item, index) ==
    IF Falsy(item.variableName) THEN <<"result_", index>> ELSE item.variableName

VariableName(item, index) ==
    IF Falsy(item.variableName) THEN <<"result_", index + 1>> ELSE item.variableName

----------------------------------------------------------------------------
\* executeQuery: what axios.post to /api/executequery can give.

Responses ==
    { "rows",        \* 2xx, body with a rows array
      "no_body",     \* 2xx, body null: response.data.rows throws
      "status",      \* non-2xx with { error } in the body
      "no_response" }\* a transport error, or no response within TimeoutMs

\* The mutant throws what axios threw instead of returning it.
executeQueryRethrow(resp) ==
    CASE resp = "rows" -> [threw |-> FALSE, success |-> TRUE, error |-> ""]
      [] OTHER -> [threw |-> TRUE, success |-> FALSE, error |-> resp]

\* The mutant checks the secret key before the try block, so the error is
\* thrown to the caller.
executeQueryThrowNoSecret(resp) ==
    CASE resp = "rows" -> [threw |-> FALSE, success |-> TRUE, error |-> ""]
      [] resp = "no_secret" -> [threw |-> TRUE, success |-> FALSE, error |-> "NoSecretKey"]
      [] resp = "no_body" -> [threw |-> FALSE, success |-> FALSE, error |-> "TypeError"]
      [] resp = "status" -> [threw |-> FALSE, success |-> FALSE, error |-> "ServiceError"]
      [] resp = "no_response" -> [threw |-> FALSE, success |-> FALSE, error |-> "AxiosError"]

executeQuery(resp) ==
    CASE resp = "rows" -> [threw |-> FALSE, success |-> TRUE, error |-> ""]
      [] resp = "no_secret" -> [threw |-> FALSE, success |-> FALSE, error |-> "NoSecretKey"]
      [] resp = "no_body" -> [threw |-> FALSE, success |-> FALSE, error |-> "TypeError"]
      [] resp = "status" -> [threw |-> FALSE, success |-> FALSE, error |-> "ServiceError"]
      [] resp = "no_response" -> [threw |-> FALSE, success |-> FALSE, error |-> "AxiosError"]

----------------------------------------------------------------------------
\* The processor's local state.

NoCall == [queryId |-> Absent, variableName |-> Absent, posted |-> FALSE]
NoResult == [status |-> "", message |-> <<>>, results |-> <<>>]

IdleProc ==
    [ pc |-> "idle", job |-> NoJob, dbType |-> "", queryObjects |-> <<>>,
      index |-> 0, successCount |-> 0, failureCount |-> 0,
      executionResults |-> <<>>, call |-> NoCall,
      result |-> NoResult, error |-> "" ]

\* The calls made for a job: getDatabaseConfig and S3 calls, the items
\* executeQuery was called for, the posts sent, the responses, the sleeps.
NoProbe ==
    [config |-> 0, fetch |-> 0, exec |-> <<>>, post |-> <<>>, resp |-> <<>>, sleeps |-> 0]

\* The catch block of processor: log and throw again.
CatchSwallow(p, e) == [p EXCEPT !.pc = "returned", !.error = e]

Catch(p, e) == [p EXCEPT !.pc = "raised", !.error = e]

\* How the processor of a job stands.
JobOutcome(p) ==
    CASE p.pc = "raised" -> "raised"
      [] p.pc = "returned" -> "returned"
      [] OTHER -> "running"

\* The delay after the item at p.index: sleep(200), whatever the item. The
\* mutant skips it after the last item.
PaceExceptLast(p) == IF p.index + 1 < Len(p.queryObjects) THEN SleepMs ELSE 0

Pace(p) == SleepMs

\* successCount++ / failureCount++
TallyAlways(count, hit) == count + 1

Tally(count, hit) == IF hit THEN count + 1 ELSE count

JobStatusInverted(failureCount) ==
    IF failureCount = 0 THEN "Completed with errors" ELSE "Completed"

JobStatus(failureCount) ==
    IF failureCount = 0 THEN "Completed" ELSE "Completed with errors"

ResultMessage(s, n, f) == <<"Execution finished.", s, n, f>>

PushFront(results, entry) == <<entry>> \o results

Push(results, entry) == Append(results, entry)

----------------------------------------------------------------------------
\* The monitoring table and updateMonitoringData's local state.

NoRow ==
    [ notebook_id |-> Absent, last_known_job_id |-> 0, last_run_time |-> 0,
      last_run_status |-> "", run_history |-> <<>>,
      successful_runs_last_5 |-> 0, failed_runs_last_5 |-> 0, is_active |-> FALSE ]

\* A call of updateMonitoringData: its position, its arguments, the history
\* it read, the time it stamped its entry with, the row it upserts, and
\* whether its select failed.
NoUpdate ==
    [ mpc |-> "none", notebookId |-> Absent, status |-> "", jobId |-> 0,
      read |-> <<>>, time |-> 0, row |-> NoRow, selectError |-> FALSE ]

\* The row of notebook n in table t (maybeSingle), NoRow when there is none.
RowOf(t, n) ==
    IF \E r \in t : r.notebook_id = n
    THEN CHOOSE r \in t : r.notebook_id = n
    ELSE NoRow

\* The table seen by notebook_id.
store == [n \in Notebooks |-> RowOf(table, n)]

\* The mutants insert the row beside the old one, and merge the new entry
\* into the history stored by then.
UpsertInsert(t, row) == t \cup {row}

UpsertMerge(t, row) ==
    {r \in t : r.notebook_id # row.notebook_id}
    \cup { [row EXCEPT !.run_history =
                IF Len(<<Head(row.run_history)>> \o RowOf(t, row.notebook_id).run_history) <= 5
                THEN <<Head(row.run_history)>> \o RowOf(t, row.notebook_id).run_history
                ELSE SubSeq(<<Head(row.run_history)>> \o RowOf(t, row.notebook_id).run_history,
                            1, 5)] }

\* upsert(row, { onConflict: 'notebook_id' }): the row replaces the row of its
\* notebook_id, or is inserted when there is none.
Upsert(t, row) == {r \in t : r.notebook_id # row.notebook_id} \cup {row}

Slice(s, n) == IF Len(s) <= n THEN s ELSE SubSeq(s, 1, n)

RECURSIVE CountRuns(_, _)
CountRuns(history, status) ==
    IF history = <<>> THEN 0
    ELSE (IF Head(history).status = status THEN 1 ELSE 0) + CountRuns(Tail(history), status)

NewHistoryAppend(history, entry) == Slice(Append(history, entry), HistoryLimit)

NewHistoryNoSlice(history, entry) == <<entry>> \o history

\* history.unshift(entry); history.slice(0, 5)
NewHistory(history, entry) == Slice(<<entry>> \o history, HistoryLimit)

MonitoringRow(notebookId, jobId, status, history, time) ==
    [ notebook_id |-> notebookId,
      last_known_job_id |-> jobId,
      last_run_time |-> time,
      last_run_status |-> status,
      run_history |-> history,
      successful_runs_last_5 |-> CountRuns(history, "completed"),
      failed_runs_last_5 |-> CountRuns(history, "failed"),
      is_active |-> TRUE ]

----------------------------------------------------------------------------
Init ==
    /\ hasSecret \in BOOLEAN
    /\ nextJobId = 1
    /\ now = 1
    /\ proc = [w \in Workers |-> IdleProc]
    /\ probe = [w \in Workers |-> NoProbe]
    /\ eventLog = <<>>
    /\ jobLog = [id \in JobIds |-> "none"]
    /\ table = {}
    /\ updates = [id \in JobIds |-> NoUpdate]
    /\ lost = [n \in Notebooks |-> FALSE]

----------------------------------------------------------------------------
\* processor(job)

\* proc and jobLog after worker w's processor moved to p.
Step(w, p) ==
    /\ proc' = [proc EXCEPT ![w] = p]
    /\ jobLog' = [jobLog EXCEPT ![p.job.id] = JobOutcome(p)]

\* The worker takes the next job and runs processor up to its first await:
\* the payload checks (outside the try), then the call of getDatabaseConfig.
ClaimJob(w, data) ==
    /\ proc[w].pc = "idle"
    /\ LET p == [IdleProc EXCEPT !.job = [id |-> nextJobId, data |-> data]]
           e == Validate(data)
       IN  IF e # ""
           THEN /\ Step(w, [p EXCEPT !.pc = "raised", !.error = e])
                /\ probe' = [probe EXCEPT ![w] = NoProbe]
           ELSE /\ Step(w, [p EXCEPT !.pc = "getDatabaseConfig"])
                /\ probe' = [probe EXCEPT ![w] = [NoProbe EXCEPT !.config = 1]]
    /\ nextJobId' = nextJobId + 1
    /\ UNCHANGED <<hasSecret, now, eventLog, table, updates, lost>>

\* getDatabaseConfig settles: on success the S3 GetObject is sent, otherwise
\* the error goes through the catch block of processor.
ConfigReturn(w, row) ==
    /\ proc[w].pc = "getDatabaseConfig"
    /\ LET c == getDatabaseConfig(row)
       IN  IF c.ok
           THEN /\ Step(w, [proc[w] EXCEPT !.pc = "s3", !.dbType = c.dbType])
                /\ probe' = [probe EXCEPT ![w].fetch = @ + 1]
           ELSE /\ Step(w, Catch(proc[w], c.error))
                /\ UNCHANGED probe
    /\ UNCHANGED <<hasSecret, nextJobId, now, eventLog, table, updates, lost>>

\* s3Client.send, transformToString and JSON.parse settle; a parsed value that
\* is no array has no entries() (a TypeError before the first iteration).
FetchReturn(w, fetched) ==
    /\ proc[w].pc = "s3"
    /\ IF fetched.kind = "list"
       THEN Step(w, [proc[w] EXCEPT !.pc = "loop", !.queryObjects = fetched.items])
       ELSE Step(w, Catch(proc[w], IF fetched.kind = "not_list" THEN "NotIterableTypeError"
                                   ELSE fetched.kind))
    /\ UNCHANGED <<hasSecret, nextJobId, now, probe, eventLog, table, updates, lost>>

\* The mutant calls executeQuery without await and goes on to the next item.
LoopStepNoAwait(w) ==
    /\ proc[w].pc = "loop"
    /\ LET p == proc[w]
           n == Len(p.queryObjects)
       IN  IF p.index = n
           THEN /\ Step(w, [p EXCEPT !.pc = "returned",
                              !.result =
                                  [ status |-> JobStatus(p.failureCount),
                                    message |-> ResultMessage(p.successCount, n, p.failureCount),
                                    results |-> p.executionResults ]])
                /\ UNCHANGED probe
           ELSE /\ Step(w, [p EXCEPT !.index = @ + 1])
                /\ probe' = [probe EXCEPT ![w].exec = Append(@, p.index + 1)]
    /\ UNCHANGED <<hasSecret, nextJobId, now, eventLog, table, updates, lost>>


\* The head of the for loop: past the last item the result is returned; reading
\* item.query of null throws; otherwise executeQuery is called, which posts
\* the query unless WORKER_SECRET_KEY is not set.
LoopStep(w) ==
    /\ proc[w].pc = "loop"
    /\ LET p == proc[w]
           n == Len(p.queryObjects)
       IN  IF p.index = n
           THEN /\ Step(w, [p EXCEPT !.pc = "returned",
                              !.result =
                                  [ status |-> JobStatus(p.failureCount),
                                    message |-> ResultMessage(p.successCount, n, p.failureCount),
                                    results |-> p.executionResults ]])
                /\ UNCHANGED probe
           ELSE LET item == p.queryObjects[p.index + 1]
                IN  IF item.type = "null"
                    THEN /\ Step(w, Catch(p, "ItemTypeError"))
                         /\ UNCHANGED probe
                    ELSE /\ Step(w, [p EXCEPT !.pc = "executeQuery",
                                       !.call =
                                           [ queryId |-> QueryId(item, p.index),
                                             variableName |-> VariableName(item, p.index),
                                             posted |-> hasSecret ]])
                         /\ probe' = [probe EXCEPT
                                       ![w].exec = Append(@, p.index + 1),
                                       ![w].post = IF hasSecret
                                                   THEN Append(@, [index |-> p.index + 1,
                                                                   sqlstr |-> item.query,
                                                                   dbtype |-> p.dbType,
                                                                   timeout |-> TimeoutMs])
                                                   ELSE @]
    /\ UNCHANGED <<hasSecret, nextJobId, now, eventLog, table, updates, lost>>

\* executeQuery settles: the outcome is counted and pushed, then sleep(200).
ExecReturn(w, resp) ==
    /\ proc[w].pc = "executeQuery"
    /\ resp = "no_secret" <=> ~proc[w].call.posted
    /\ LET p == proc[w]
           r == executeQuery(resp)
       IN  IF r.threw
           THEN Step(w, Catch(p, r.error))
           ELSE Step(w, [p EXCEPT
                          !.pc = "sleep",
                          !.successCount = Tally(@, r.success),
                          !.failureCount = Tally(@, ~r.success),
                          !.executionResults =
                              Push(@, [ queryId |-> p.call.queryId,
                                        variableName |-> p.call.variableName,
                                        success |-> r.success,
                                        error |-> r.error ]),
                          !.call = NoCall])
    /\ probe' = [probe EXCEPT ![w].resp = Append(@, resp),
                              ![w].sleeps = IF executeQuery(resp).threw THEN @
                                            ELSE @ + Pace(proc[w])]
    /\ UNCHANGED <<hasSecret, nextJobId, now, eventLog, table, updates, lost>>

\* The mutant's sleep never settles.
SleepReturnNever(w) ==
    /\ proc[w].pc = "sleep"
    /\ UNCHANGED vars

\* sleep(200) settles: on to the next item.
SleepReturn(w) ==
    /\ proc[w].pc = "sleep"
    /\ Step(w, [proc[w] EXCEPT !.pc = "loop", !.index = @ + 1])
    /\ UNCHANGED <<hasSecret, nextJobId, now, probe, eventLog, table, updates, lost>>

----------------------------------------------------------------------------
\* The listeners and updateMonitoringData(job, status)

\* The mutant has no guard for a missing notebookId.
UpdateStartNoGuard(job, status) ==
    [NoUpdate EXCEPT !.mpc = "select", !.notebookId = job.data.notebookId,
                     !.status = status, !.jobId = job.id]

\* updateMonitoringData up to its first await: nothing is done for a job
\* without notebookId, otherwise the select of the current row is sent.
UpdateStart(job, status) ==
    IF Falsy(job.data.notebookId)
    THEN [NoUpdate EXCEPT !.mpc = "skipped", !.status = status, !.jobId = job.id]
    ELSE [NoUpdate EXCEPT !.mpc = "select", !.notebookId = job.data.notebookId,
                          !.status = status, !.jobId = job.id]

Emit(w, status) ==
    LET job == proc[w].job
    IN  /\ eventLog' = Append(eventLog,
                [jobId |-> job.id, notebookId |-> job.data.notebookId, status |-> status])
        /\ updates' = [updates EXCEPT ![job.id] = UpdateStart(job, status)]
        /\ proc' = [proc EXCEPT ![w].pc = "idle"]
        /\ UNCHANGED <<hasSecret, nextJobId, now, probe, jobLog, table, lost>>

\* worker.on('completed'): the processor returned.
OnCompleted(w) ==
    /\ proc[w].pc = "returned"
    /\ Emit(w, "completed")

\* The mutant logs the failure and does not call updateMonitoringData.
OnFailedNoMonitoring(w) ==
    /\ proc[w].pc = "raised"
    /\ eventLog' = Append(eventLog,
            [ jobId |-> proc[w].job.id, notebookId |-> proc[w].job.data.notebookId,
              status |-> "failed" ])
    /\ proc' = [proc EXCEPT ![w].pc = "idle"]
    /\ UNCHANGED <<hasSecret, nextJobId, now, probe, jobLog, table, updates, lost>>

\* worker.on('failed'): the processor threw.
OnFailed(w) ==
    /\ proc[w].pc = "raised"
    /\ Emit(w, "failed")

SelectOutcomes == {"row", "select_error", "throws"}
UpsertOutcomes == {"ok", "upsert_error", "throws"}

\* The mutant is the older listener (lines 189-195): it reads data alone, so
\* after a select error it goes on with an empty history.
MonSelectReturnIgnoreError(id, outcome) ==
    /\ updates[id].mpc = "select"
    /\ outcome # "throws"
    /\ LET u == updates[id]
           history == IF outcome = "row" THEN RowOf(table, u.notebookId).run_history ELSE <<>>
           newHistory == NewHistory(history, [status |-> u.status, timestamp |-> now])
       IN  updates' = [updates EXCEPT ![id].mpc = "upsert",
                         ![id].read = history,
                         ![id].time = now,
                         ![id].selectError = outcome # "row",
                         ![id].row = MonitoringRow(u.notebookId, u.jobId, u.status,
                                                   newHistory, now)]
    /\ now' = now + 1
    /\ UNCHANGED <<hasSecret, nextJobId, proc, probe, eventLog, jobLog, table, lost>>

\* The select settles. With a row or with none, the new history and the row
\* to write are computed and the upsert is sent; a select error returns, an
\* exception is caught.
MonSelectReturn(id, outcome) ==
    /\ updates[id].mpc = "select"
    /\ LET u == updates[id]
           currentMonitoring == RowOf(table, u.notebookId)
           history == IF currentMonitoring = NoRow THEN <<>>
                      ELSE currentMonitoring.run_history
           newHistory == NewHistory(history, [status |-> u.status, timestamp |-> now])
       IN  IF outcome = "row"
           THEN /\ updates' = [updates EXCEPT ![id].mpc = "upsert",
                                 ![id].read = history,
                                 ![id].time = now,
                                 ![id].row = MonitoringRow(u.notebookId, u.jobId, u.status,
                                                           newHistory, now)]
                /\ now' = now + 1
                /\ UNCHANGED lost
           ELSE /\ updates' = [updates EXCEPT ![id].mpc = "done", ![id].selectError = TRUE]
                /\ lost' = [lost EXCEPT ![u.notebookId] = TRUE]
                /\ UNCHANGED now
    /\ UNCHANGED <<hasSecret, nextJobId, proc, probe, eventLog, jobLog, table>>

\* The mutant lets a failed upsert fail the job: a 'failed' event follows.
MonUpsertReturnPropagates(id, outcome) ==
    /\ updates[id].mpc = "upsert"
    /\ LET u == updates[id]
       IN  IF outcome = "ok"
           THEN /\ table' = Upsert(table, u.row)
                /\ UNCHANGED <<lost, jobLog, eventLog>>
           ELSE /\ lost' = [lost EXCEPT ![u.notebookId] = TRUE]
                /\ jobLog' = [jobLog EXCEPT ![id] = "raised"]
                /\ eventLog' = Append(eventLog,
                        [jobId |-> id, notebookId |-> u.notebookId, status |-> "failed"])
                /\ UNCHANGED table
    /\ updates' = [updates EXCEPT ![id].mpc = "done", ![id].read = <<>>, ![id].row = NoRow]
    /\ UNCHANGED <<hasSecret, nextJobId, now, proc, probe>>

\* The upsert settles: the row replaces the notebook's row, or the error is
\* logged.
MonUpsertReturn(id, outcome) ==
    /\ updates[id].mpc = "upsert"
    /\ LET u == updates[id]
       IN  IF outcome = "ok"
           THEN /\ table' = Upsert(table, u.row)
                /\ UNCHANGED lost
           ELSE /\ lost' = [lost EXCEPT ![u.notebookId] = TRUE]
                /\ UNCHANGED table
    /\ updates' = [updates EXCEPT ![id].mpc = "done", ![id].read = <<>>, ![id].row = NoRow]
    /\ UNCHANGED <<hasSecret, nextJobId, now, proc, probe, eventLog, jobLog>>

----------------------------------------------------------------------------
\* Specifications.

Pending(id) == updates[id].mpc \in {"select", "upsert"}
Quiescent == \A id \in JobIds : ~Pending(id)

\* One worker with the default concurrency of 1, over jobs with lists of up to
\* MaxLen items; a job is delivered when the monitoring update of the job
\* before it has ended.
Next ==
    \/ \E data \in JobData({<<"nb1">>}) : nextJobId <= MaxJobs /\ Quiescent /\ ClaimJob("w1", data)
    \/ \E row \in ConfigRows : ConfigReturn("w1", row)
    \/ \E fetched \in Fetched(Items, MaxLen) : FetchReturn("w1", fetched)
    \/ LoopStep("w1")
    \/ \E resp \in Responses \cup {"no_secret"} : ExecReturn("w1", resp)
    \/ SleepReturn("w1")
    \/ OnCompleted("w1")
    \/ OnFailed("w1")
    \/ \E id \in JobIds, outcome \in SelectOutcomes : MonSelectReturn(id, outcome)
    \/ \E id \in JobIds, outcome \in UpsertOutcomes : MonUpsertReturn(id, outcome)

Spec == Init /\ [][Next]_vars

\* The worker of Spec over lists of statements and null items, with every
\* await of the processor settling in the end: the event loop runs the
\* continuation of a call that has returned or failed.
LiveItems == {ObjectItem(<<"SELECT 1">>, Absent, Absent), NullItem}

ProcessorStep(w) ==
    \/ \E row \in ConfigRows : ConfigReturn(w, row)
    \/ \E fetched \in Fetched(LiveItems, MaxLen) : FetchReturn(w, fetched)
    \/ LoopStep(w)
    \/ \E resp \in Responses \cup {"no_secret"} : ExecReturn(w, resp)
    \/ SleepReturn(w)

NextLive ==
    \/ \E data \in JobData({<<"nb1">>}) : nextJobId <= MaxJobs /\ Quiescent /\ ClaimJob("w1", data)
    \/ ProcessorStep("w1")
    \/ OnCompleted("w1")
    \/ OnFailed("w1")
    \/ \E id \in JobIds, outcome \in SelectOutcomes : MonSelectReturn(id, outcome)
    \/ \E id \in JobIds, outcome \in UpsertOutcomes : MonUpsertReturn(id, outcome)

SpecLive == Init /\ [][NextLive]_vars /\ WF_vars(ProcessorStep("w1"))

\* The same worker over a longer run of short jobs, up to the first failure of
\* the monitoring table.
NoLoss == \A n \in Notebooks : ~lost[n]

SeqJobData ==
    { [s3Key |-> <<"queries.json">>, notebookId |-> <<"nb1">>],
      [s3Key |-> Absent, notebookId |-> <<"nb1">>],
      [s3Key |-> <<"queries.json">>, notebookId |-> <<"nb2">>] }

SeqItems == {ObjectItem(<<"SELECT 1">>, Absent, Absent)}

NextSeq ==
    \/ \E data \in SeqJobData :
          nextJobId <= MaxSeqJobs /\ Quiescent /\ NoLoss /\ ClaimJob("w1", data)
    \/ ConfigReturn("w1", "PostgreSQL")
    \/ \E items \in SeqsUpTo(SeqItems, 1) :
          FetchReturn("w1", [kind |-> "list", items |-> items])
    \/ LoopStep("w1")
    \/ ExecReturn("w1", "rows")
    \/ SleepReturn("w1")
    \/ OnCompleted("w1")
    \/ OnFailed("w1")
    \/ \E id \in JobIds, outcome \in SelectOutcomes : MonSelectReturn(id, outcome)
    \/ \E id \in JobIds, outcome \in UpsertOutcomes : MonUpsertReturn(id, outcome)

InitSeq == Init /\ hasSecret

SpecSeq == InitSeq /\ [][NextSeq]_vars

\* The worker alone, with jobs delivered while the monitoring updates of
\* earlier jobs are still on their way, so that the updates settle in any
\* order. The monitoring table outlives the worker: it starts empty or with
\* the row that four earlier jobs of nb1 left.
RaceJobData ==
    { [s3Key |-> <<"queries.json">>, notebookId |-> <<"nb1">>],
      [s3Key |-> Absent, notebookId |-> <<"nb1">>],
      [s3Key |-> <<"queries.json">>, notebookId |-> <<"nb2">>] }

EarlierHistory ==
    << [status |-> "completed", timestamp |-> 0],
       [status |-> "failed", timestamp |-> -1],
       [status |-> "completed", timestamp |-> -2],
       [status |-> "completed", timestamp |-> -3] >>

EarlierRow == MonitoringRow(<<"nb1">>, 0, "completed", EarlierHistory, 0)

NextRace ==
    \/ \E data \in RaceJobData : nextJobId <= MaxRaceJobs /\ ClaimJob("w1", data)
    \/ ConfigReturn("w1", "PostgreSQL")
    \/ \E items \in SeqsUpTo(SeqItems, 1) :
          FetchReturn("w1", [kind |-> "list", items |-> items])
    \/ LoopStep("w1")
    \/ ExecReturn("w1", "rows")
    \/ SleepReturn("w1")
    \/ OnCompleted("w1")
    \/ OnFailed("w1")
    \/ \E id \in JobIds, outcome \in SelectOutcomes : MonSelectReturn(id, outcome)
    \/ \E id \in JobIds, outcome \in UpsertOutcomes : MonUpsertReturn(id, outcome)

InitRace ==
    /\ hasSecret = TRUE
    /\ nextJobId = 1
    /\ now = 1
    /\ proc = [w \in Workers |-> IdleProc]
    /\ probe = [w \in Workers |-> NoProbe]
    /\ eventLog = <<>>
    /\ jobLog = [id \in JobIds |-> "none"]
    /\ table \in {{}, {EarlierRow}}
    /\ updates = [id \in JobIds |-> NoUpdate]
    /\ lost = [n \in Notebooks |-> FALSE]

SpecRace == InitRace /\ [][NextRace]_vars

\* Two workers on the queue, each with one job at a time, over lists of up to
\* MaxLen items.
NextConc ==
    \/ \E w \in Workers, data \in SeqJobData :
          nextJobId <= MaxConcJobs /\ Quiescent /\ ClaimJob(w, data)
    \/ \E w \in Workers : ConfigReturn(w, "PostgreSQL")
    \/ \E w \in Workers, items \in SeqsUpTo(SeqItems, MaxLen) :
          FetchReturn(w, [kind |-> "list", items |-> items])
    \/ \E w \in Workers : LoopStep(w)
    \/ \E w \in Workers, resp \in {"rows", "status"} : ExecReturn(w, resp)
    \/ \E w \in Workers : SleepReturn(w)
    \/ \E w \in Workers : OnCompleted(w)
    \/ \E w \in Workers : OnFailed(w)
    \/ \E id \in JobIds : MonSelectReturn(id, "row")
    \/ \E id \in JobIds : MonUpsertReturn(id, "ok")

SpecConc == InitSeq /\ [][NextConc]_vars

----------------------------------------------------------------------------
\* Properties of one job (checked under Spec).

\* The calls of executeQuery of worker w's job that ended in a failure.
FailedCalls(w) == Cardinality({i \in 1..Len(probe[w].resp) : probe[w].resp[i] # "rows"})

\* No item of the list is null.
WellFormed(queryObjects) ==
    \A i \in 1..Len(queryObjects) : queryObjects[i].type # "null"

\* The processor of worker w's job has returned its result.
Returned(w) == proc[w].result # NoResult

\* C1: a job over N items of which K executeQuery calls fail returns with
\* successCount = N-K and failureCount = K (as the message reports them), with
\* status 'Completed' iff K = 0 and 'Completed with errors' otherwise; a list
\* without a null item never makes the processor throw.
C1_CountsAndStatus ==
    \A w \in Workers :
        LET p == proc[w]
            n == Len(p.queryObjects)
            k == FailedCalls(w)
        IN  /\ (p.queryObjects # <<>> /\ WellFormed(p.queryObjects)) => p.pc # "raised"
            /\ Returned(w) =>
                  /\ Len(probe[w].resp) = n
                  /\ p.successCount = n - k
                  /\ p.failureCount = k
                  /\ p.result.message = ResultMessage(n - k, n, k)
                  /\ p.result.status = "Completed" <=> k = 0
                  /\ k # 0 => p.result.status = "Completed with errors"

C1_Witness ==
    \E w \in Workers :
        /\ Returned(w)
        /\ Len(proc[w].queryObjects) = 2
        /\ FailedCalls(w) = 1
        /\ proc[w].result.status = "Completed with errors"

\* C2: executeQuery is called for the items in list order and the posts go out
\* in that order, each with its item's query; the i-th entry of
\* executionResults is the outcome of the i-th item; the returned results are
\* that list, one entry per item; an empty list returns 'Completed' with no
\* results and without any call.
C2_OrderOfOutcomes ==
    \A w \in Workers :
        LET p == proc[w]
            b == probe[w]
            n == Len(p.queryObjects)
        IN  /\ \A i \in 1..Len(b.exec) : b.exec[i] = i
            /\ \A i \in 1..Len(b.post) :
                  /\ i > 1 => b.post[i - 1].index < b.post[i].index
                  /\ b.post[i].index \in 1..Len(b.exec)
                  /\ b.post[i].sqlstr = p.queryObjects[b.post[i].index].query
            /\ Len(p.executionResults) = Len(b.resp)
            /\ \A i \in 1..Len(p.executionResults) :
                  LET item == p.queryObjects[i]
                      o == p.executionResults[i]
                  IN  /\ o.queryId = (IF Falsy(item.id) THEN <<"query_", i>> ELSE item.id)
                      /\ o.variableName = (IF Falsy(item.variableName) THEN <<"result_", i>>
                                           ELSE item.variableName)
                      /\ o.success = (b.resp[i] = "rows")
                      /\ o.error = executeQuery(b.resp[i]).error
            /\ Returned(w) =>
                  /\ p.result.results = p.executionResults
                  /\ Len(p.result.results) = n
                  /\ n = 0 => /\ p.result.status = "Completed"
                              /\ p.result.results = <<>>
                              /\ b.exec = <<>> /\ b.post = <<>>

C2_Witness ==
    \E w \in Workers :
        /\ Returned(w)
        /\ Len(proc[w].result.results) = 2
        /\ proc[w].result.results[1].success
        /\ ~proc[w].result.results[2].success
        /\ proc[w].queryObjects[1] # proc[w].queryObjects[2]

\* The events emitted for job id, as positions in eventLog.
EventsOf(id) == {i \in 1..Len(eventLog) : eventLog[i].jobId = id}

\* C4: a job without s3Key or without notebookId is thrown out by the checks
\* at the head of processor: for it getDatabaseConfig is never called, no S3
\* call is made, and executeQuery is never called.
C4_ValidationBeforeIO ==
    \A w \in Workers :
        LET p == proc[w]
        IN  (p.job.id # 0 /\ (Falsy(p.job.data.s3Key) \/ Falsy(p.job.data.notebookId))) =>
                /\ p.pc \in {"raised", "idle"}
                /\ p.error \in {"MissingS3Key", "MissingNotebookId"}
                /\ Falsy(p.job.data.s3Key) => p.error = "MissingS3Key"
                /\ jobLog[p.job.id] = "raised"
                /\ p.result = NoResult
                /\ probe[w] = NoProbe

C4_Witness ==
    \E w \in Workers :
        /\ proc[w].pc = "idle"
        /\ proc[w].error = "MissingNotebookId"
        /\ ~Falsy(proc[w].job.data.s3Key)
        /\ \E i \in EventsOf(proc[w].job.id) : eventLog[i].status = "failed"

\* C5: when getDatabaseConfig throws, the job is thrown to the queue, no S3
\* call and no executeQuery call is made for it, and once the worker is done
\* with the job exactly one event, 'failed', has been emitted for it and handed
\* to updateMonitoringData for its notebook.
C5_ResolverFailure ==
    \A w \in Workers :
        LET p == proc[w]
            id == p.job.id
        IN  p.error \in ConfigErrors =>
                /\ jobLog[id] = "raised"
                /\ p.result = NoResult
                /\ probe[w] = [NoProbe EXCEPT !.config = 1]
                /\ \A i \in EventsOf(id) :
                      /\ eventLog[i].status = "failed"
                      /\ eventLog[i].notebookId = p.job.data.notebookId
                /\ p.pc = "raised" => (EventsOf(id) = {} /\ updates[id] = NoUpdate)
                /\ p.pc = "idle" =>
                      /\ Cardinality(EventsOf(id)) = 1
                      /\ updates[id].mpc \in {"select", "upsert", "done"}
                      /\ updates[id].status = "failed"
                      /\ updates[id].notebookId = p.job.data.notebookId
                      /\ updates[id].jobId = id

C5_Witness ==
    \E w \in Workers :
        /\ proc[w].pc = "idle"
        /\ proc[w].error = "FetchConfigError"
        /\ Cardinality(EventsOf(proc[w].job.id)) = 1
        /\ updates[proc[w].job.id].mpc = "done"
        /\ store[proc[w].job.data.notebookId].last_run_status = "failed"

\* C6: whatever becomes of the monitoring update of a job that returned a
\* result, the job stays returned, its result stays the one computed from its
\* outcomes, and no 'failed' event is emitted for it.
C6_MonitoringFailureIsolated ==
    \A w \in Workers :
        LET p == proc[w]
            id == p.job.id
        IN  Returned(w) =>
                /\ jobLog[id] = "returned"
                /\ p.error = ""
                /\ p.result.status =
                      (IF FailedCalls(w) = 0 THEN "Completed" ELSE "Completed with errors")
                /\ p.result.message =
                      <<"Execution finished.", Len(p.queryObjects) - FailedCalls(w),
                        Len(p.queryObjects), FailedCalls(w)>>
                /\ p.result.results = p.executionResults
                /\ \A i \in EventsOf(id) : eventLog[i].status = "completed"
                /\ Cardinality(EventsOf(id)) <= 1

\* A job returned 'Completed', the select of its update gave the row and the
\* upsert failed.
C6_Witness ==
    \E w \in Workers :
        /\ Returned(w)
        /\ proc[w].result.status = "Completed"
        /\ Len(proc[w].result.results) = 2
        /\ updates[proc[w].job.id].mpc = "done"
        /\ lost[proc[w].job.data.notebookId]
        /\ now > 1
        /\ store[proc[w].job.data.notebookId] = NoRow

\* C7: in one run of processor executeQuery is called once for each item, in
\* order, whatever the earlier outcomes were (and each call posts once when the
\* secret key is set): by the time the result is returned every item has had
\* its one call, and once a call has been made the processor throws only at
\* a null item, never because of an outcome.
C7_EachStatementOnce ==
    \A w \in Workers :
        LET p == proc[w]
            b == probe[w]
            n == Len(p.queryObjects)
        IN  /\ \A i \in 1..Len(b.exec) : b.exec[i] = i
            /\ Len(b.exec) <= n
            /\ Len(b.resp) \in {Len(b.exec), Len(b.exec) - 1}
            /\ Len(b.post) = (IF hasSecret THEN Len(b.exec) ELSE 0)
            /\ \A i \in 1..Len(b.post) : b.post[i].index = i
            /\ Returned(w) => (Len(b.exec) = n /\ Len(b.resp) = n)
            /\ (p.pc = "raised" /\ b.exec # <<>>) =>
                  /\ p.error = "ItemTypeError"
                  /\ Len(b.resp) = Len(b.exec)
                  /\ p.queryObjects[Len(b.exec) + 1].type = "null"

C7_Witness ==
    \E w \in Workers :
        /\ Returned(w)
        /\ probe[w].exec = <<1, 2>>
        /\ probe[w].resp[1] = "no_response"
        /\ probe[w].resp[2] = "rows"
        /\ Len(probe[w].post) = 2

\* C8: at most one event is emitted for a job; it is 'completed' exactly for a
\* job whose processor returned a result (also when every query failed) and
\* 'failed' exactly for a job whose processor threw; a job that ended with an
\* error was thrown to the queue; once the worker is done with a job its one
\* event is out, and for a job with notebookId it has been handed to
\* updateMonitoringData with that status.
C8_OneTerminalEvent ==
    /\ \A w \in Workers :
          LET p == proc[w]
          IN  /\ p.error # "" => (p.job.id # 0 /\ jobLog[p.job.id] = "raised" /\ ~Returned(w))
              /\ Returned(w) => jobLog[p.job.id] = "returned"
              /\ p.pc \in {"raised", "returned"} => EventsOf(p.job.id) = {}
    /\ \A id \in JobIds :
          /\ Cardinality(EventsOf(id)) <= 1
          /\ \A i \in EventsOf(id) :
                /\ eventLog[i].status = "completed" <=> jobLog[id] = "returned"
                /\ eventLog[i].status = "failed" <=> jobLog[id] = "raised"
                /\ ~Falsy(eventLog[i].notebookId) =>
                      /\ updates[id].mpc \in {"select", "upsert", "done"}
                      /\ updates[id].status = eventLog[i].status
                      /\ updates[id].notebookId = eventLog[i].notebookId
          /\ jobLog[id] \in {"none", "running"} => EventsOf(id) = {}
          /\ ( /\ jobLog[id] \in {"returned", "raised"}
               /\ \A w \in Workers :
                     proc[w].job.id = id => proc[w].pc \notin {"raised", "returned"} )
             => Cardinality(EventsOf(id)) = 1

\* Every query of the job failed and its event is 'completed'.
C8_Witness ==
    \E w \in Workers :
        /\ proc[w].pc = "idle"
        /\ proc[w].result.status = "Completed with errors"
        /\ proc[w].successCount = 0
        /\ proc[w].failureCount = 2
        /\ ~Falsy(proc[w].job.data.notebookId)
        /\ \E i \in EventsOf(proc[w].job.id) : eventLog[i].status = "completed"

\* C9: after every iteration of the loop successCount + failureCount is the
\* number of items processed and the length of executionResults; in the
\* returned result that number is the length of the list, and the status is
\* 'Completed with errors' iff failureCount > 0.
C9_CountsInvariant ==
    \A w \in Workers :
        LET p == proc[w]
            total == p.successCount + p.failureCount
        IN  /\ total = Len(p.executionResults)
            /\ total = Len(probe[w].resp)
            /\ p.pc = "sleep" => total = p.index + 1
            /\ p.pc \in {"loop", "executeQuery"} => total = p.index
            /\ Returned(w) =>
                  /\ total = Len(p.queryObjects)
                  /\ total = Len(p.result.results)
                  /\ p.result.message = <<"Execution finished.", p.successCount, total,
                                          p.failureCount>>
                  /\ p.result.status = "Completed with errors" <=> p.failureCount > 0
                  /\ p.result.status = "Completed" <=> p.failureCount = 0

C9_Witness ==
    \E w \in Workers :
        /\ proc[w].pc = "sleep"
        /\ proc[w].index = 1
        /\ proc[w].successCount = 1
        /\ proc[w].failureCount = 1

\* An item taking both fallbacks: a bare string, or an object with a query and
\* neither id nor variableName.
BareItem(item) ==
    \/ item.type = "string"
    \/ item.type = "object" /\ ~Falsy(item.query) /\ Falsy(item.id) /\ Falsy(item.variableName)

----------------------------------------------------------------------------
\* Properties of the monitoring table over a run of jobs (checked under SpecSeq).

\* The events handed to updateMonitoringData for notebook n, oldest first.
RECURSIVE Dispatched(_, _)
Dispatched(log, n) ==
    IF log = <<>> THEN <<>>
    ELSE IF Head(log).notebookId = n THEN <<Head(log)>> \o Dispatched(Tail(log), n)
    ELSE Dispatched(Tail(log), n)

Smaller(a, b) == IF a <= b THEN a ELSE b

----------------------------------------------------------------------------
\* The executor and the pacing of the loop (checked under Spec).

\* What the query service can do with a call of executeQuery, the missing
\* secret key included.
Behaviours == Responses \cup {"no_secret"}

\* The errors processor throws that are not an outcome of executeQuery.
ProcessorErrors ==
    {"MissingS3Key", "MissingNotebookId", "ItemTypeError"} \cup ConfigErrors
    \cup {"fetch_error", "decode_error", "invalid_json", "NotIterableTypeError"}

\* C11: executeQuery never throws: whatever the service does (rows, a status
\* other than 2xx, no response at all or none within the timeout, no secret
\* key), the call settles with an outcome that the loop pushes; the outcome is
\* a success only for a 2xx response, and every other outcome is a failure
\* with an error message; the processor never throws an error of executeQuery.
C11_ExecutorNeverRaises ==
    /\ \A resp \in Behaviours :
          /\ ~executeQuery(resp).threw
          /\ executeQuery(resp).success => resp = "rows"
          /\ resp \in {"status", "no_response", "no_secret"} =>
                (~executeQuery(resp).success /\ executeQuery(resp).error # "")
    /\ \A w \in Workers :
          LET p == proc[w]
              b == probe[w]
          IN  /\ Len(p.executionResults) = Len(b.resp)
              /\ \A i \in 1..Len(b.resp) :
                    /\ b.resp[i] \in Behaviours
                    /\ p.executionResults[i].success => b.resp[i] = "rows"
                    /\ b.resp[i] # "rows" =>
                          /\ ~p.executionResults[i].success
                          /\ p.executionResults[i].error # ""
              /\ p.error # "" => p.error \in ProcessorErrors

C11_Witness ==
    \E w \in Workers :
        /\ Returned(w)
        /\ Len(probe[w].resp) = 2
        /\ {probe[w].resp[1], probe[w].resp[2]} = {"status", "no_response"}
        /\ ~proc[w].executionResults[1].success
        /\ ~proc[w].executionResults[2].success

\* C12 (as the spec words it): the loop sleeps after each item except the
\* last: by the time the result is returned there have been max(N-1, 0)
\* sleeps for N items.
C12_NoDelayAfterLast ==
    \A w \in Workers :
        Returned(w) =>
            probe[w].sleeps = SleepMs * (IF Len(proc[w].queryObjects) = 0 THEN 0
                                         ELSE Len(proc[w].queryObjects) - 1)

\* C12 (as the code has it): the loop sleeps 200 ms after every item, the
\* last one included: call k comes after k-1 sleeps, each sleep comes between
\* the outcome of an item and the next step of the loop, and the result of N
\* items is returned after N sleeps.
C12_DelayAfterEach ==
    \A w \in Workers :
        LET p == proc[w]
            b == probe[w]
        IN  /\ p.pc = "executeQuery" => b.sleeps = SleepMs * (Len(b.exec) - 1)
            /\ p.pc = "sleep" => (b.sleeps = SleepMs * Len(b.resp) /\ Len(b.resp) = p.index + 1)
            /\ p.pc = "loop" => b.sleeps = SleepMs * p.index
            /\ Returned(w) => b.sleeps = SleepMs * Len(p.queryObjects)

C12_Witness ==
    \E w \in Workers :
        /\ Returned(w)
        /\ Len(proc[w].queryObjects) = 2
        /\ probe[w].sleeps = 2 * SleepMs

----------------------------------------------------------------------------
\* Jobs side by side (checked under SpecConc).

\* The calls of executeQuery of worker w's job that have not settled.
InFlight(w) == Len(probe[w].exec) - Len(probe[w].resp)

\* C13: a job has at most one call of executeQuery in flight, also while
\* another job runs on the other worker: call k+1 is made only when call k
\* has settled and its outcome has been counted and pushed.
C13_OneCallInFlight ==
    \A w \in Workers :
        LET p == proc[w]
            b == probe[w]
        IN  /\ InFlight(w) \in {0, 1}
            /\ InFlight(w) = 1 <=> p.pc = "executeQuery"
            /\ \A k \in 1..Len(b.exec) : b.exec[k] = k
            /\ InFlight(w) = 1 =>
                  /\ Len(p.executionResults) = Len(b.exec) - 1
                  /\ p.successCount + p.failureCount = Len(b.exec) - 1
            /\ InFlight(w) = 0 =>
                  /\ Len(p.executionResults) = Len(b.exec)
                  /\ p.successCount + p.failureCount = Len(b.exec)

C13_Witness ==
    /\ proc["w1"].pc = "executeQuery"
    /\ proc["w2"].pc = "executeQuery"
    /\ proc["w1"].job.id # proc["w2"].job.id
    /\ Len(probe["w1"].exec) = 2
    /\ Len(probe["w2"].exec) = 1

----------------------------------------------------------------------------
\* The artifact (checked under Spec).

\* An item that is not a string and has no query text.
MissingText(item) == item.type = "null" \/ (item.type = "object" /\ Falsy(item.query))

\* C14 (as the spec words it): a job whose file cannot be fetched, cannot be
\* read as a list, or holds an item without its query text, throws before any
\* call of executeQuery and gets the 'failed' event.
C14_StructureFailureFatal ==
    \A w \in Workers :
        LET p == proc[w]
            b == probe[w]
        IN  /\ p.error \in {"fetch_error", "decode_error", "invalid_json", "NotIterableTypeError"}
                  => (b.exec = <<>> /\ jobLog[p.job.id] = "raised")
            /\ (\E i \in 1..Len(p.queryObjects) : MissingText(p.queryObjects[i])) =>
                  /\ b.exec = <<>>
                  /\ ~Returned(w)
                  /\ \A e \in EventsOf(p.job.id) : eventLog[e].status = "failed"

----------------------------------------------------------------------------
\* The monitoring table under updates that overlap (checked under SpecRace).

\* The rows of notebook n.
RowsOf(n) == {r \in table : r.notebook_id = n}

\* C15: the table has at most one row for a notebook; a row comes into being
\* by the first upsert that succeeds for its notebook, whose select found no
\* row, with a history of one entry; every later upsert replaces that row,
\* and a row is never removed.
C15_OneRecordPerNotebook ==
    /\ [](\A r \in table : r.notebook_id \in Notebooks /\ RowsOf(r.notebook_id) = {r})
    /\ [][\A n \in Notebooks :
            /\ (store[n] = NoRow /\ store'[n] # NoRow) =>
                  /\ Len(store'[n].run_history) = 1
                  /\ \E id \in JobIds :
                        /\ updates[id].mpc = "upsert"
                        /\ updates[id].read = <<>>
                        /\ updates[id].row = store'[n]
            /\ store[n] # NoRow => store'[n] # NoRow]_vars

C15_Witness ==
    /\ Cardinality(table) = 1
    /\ Len(store[<<"nb1">>].run_history) = 2
    /\ store[<<"nb1">>].run_history[2].timestamp >= 1
    /\ store[<<"nb1">>].last_known_job_id = 2
    /\ \A id \in 1..2 : updates[id].mpc = "done"

\* C16: when two updates of a notebook overlap, each upsert carries the whole
\* row, computed from the history its own select returned; an upsert that
\* succeeds leaves exactly the row it carries, whatever was stored by then,
\* and touches no other notebook. So after both have written the row is that
\* of the last writer, and the event of the other may be missing from it.
C16_LastWriterWins ==
    /\ [](\A id \in JobIds :
            updates[id].mpc = "upsert" =>
                LET u == updates[id]
                IN  /\ u.row.notebook_id = u.notebookId
                    /\ u.row.last_known_job_id = id
                    /\ u.row.last_run_status = u.status
                    /\ u.row.run_history =
                          Slice(<<[status |-> u.status, timestamp |-> u.time]>> \o u.read,
                                HistoryLimit))
    /\ [][\A id \in JobIds :
            (updates[id].mpc = "upsert" /\ updates'[id].mpc = "done" /\ table' # table) =>
                /\ store'[updates[id].notebookId] = updates[id].row
                /\ \A n \in Notebooks \ {updates[id].notebookId} : store'[n] = store[n]]_vars

C16_Witness ==
    /\ Len(eventLog) = 2
    /\ \A i \in 1..2 : eventLog[i].notebookId = <<"nb1">>
    /\ \A id \in 1..2 : updates[id].mpc = "done" /\ updates[id].time > 0
    /\ ~lost[<<"nb1">>]
    /\ store[<<"nb1">>].last_known_job_id = 1
    /\ store[<<"nb1">>].last_run_status = "completed"
    /\ store[<<"nb1">>].run_history = <<[status |-> "completed", timestamp |-> 2]>>

\* The entries of history h with the given status.
Runs(h, status) == Cardinality({i \in 1..Len(h) : h[i].status = status})

\* C17: in every state, however the updates overlap, every row of the table
\* has a history of at most five entries, successful_runs_last_5 and
\* failed_runs_last_5 count its 'completed' and its 'failed' entries and add
\* up to its length, and last_run_status and last_known_job_id are the status
\* and the job of the event of its newest entry.
C17_RecordConsistent ==
    \A r \in table :
        LET h == r.run_history
        IN  /\ Len(h) \in 1..HistoryLimit
            /\ r.successful_runs_last_5 = Runs(h, "completed")
            /\ r.failed_runs_last_5 = Runs(h, "failed")
            /\ r.successful_runs_last_5 + r.failed_runs_last_5 = Len(h)
            /\ r.last_run_status = h[1].status
            /\ IF h[1].timestamp <= 0
               THEN r = EarlierRow
               ELSE \E id \in JobIds :
                       /\ updates[id].time = h[1].timestamp
                       /\ updates[id].notebookId = r.notebook_id
                       /\ r.last_known_job_id = id
                       /\ \A e \in EventsOf(id) : eventLog[e].status = h[1].status
                       /\ EventsOf(id) # {}

C17_Witness ==
    \E r \in table :
        /\ Len(r.run_history) = HistoryLimit
        /\ r.run_history[HistoryLimit].timestamp = -2
        /\ r.run_history[1].status = "failed"
        /\ r.failed_runs_last_5 = 2
        /\ r.last_known_job_id = 2

C19_NoTenantNoMonitoring ==
    /\ \A i \in 1..Len(eventLog) :
          Falsy(eventLog[i].notebookId) =>
              LET id == eventLog[i].jobId
              IN  /\ eventLog[i].status = "failed"
                  /\ jobLog[id] = "raised"
                  /\ updates[id].mpc = "skipped"
                  /\ updates[id].row = NoRow
                  /\ updates[id].time = 0
                  /\ \A r \in table : r.last_known_job_id # id /\ ~Falsy(r.notebook_id)
    /\ \A w \in Workers :
          (proc[w].pc # "idle" /\ ~Falsy(proc[w].job.data.s3Key)
              /\ Falsy(proc[w].job.data.notebookId)) =>
                  (proc[w].pc = "raised" /\ proc[w].error = "MissingNotebookId")

C19_Witness ==
    /\ Len(eventLog) = 1
    /\ eventLog[1].notebookId = Absent
    /\ eventLog[1].status = "failed"
    /\ proc["w1"].error = "MissingNotebookId"
    /\ updates[1].mpc = "skipped"
    /\ table = {}

----------------------------------------------------------------------------
\* Termination (checked under SpecLive).

\* C20: when every call the processor awaits settles, every job that was
\* claimed ends: its processor returns its result or throws, after at most
\* one call of executeQuery (and one post) for each item of its list, whatever
\* the outcomes were.
C20_JobTerminates ==
    /\ (proc["w1"].pc \in {"getDatabaseConfig", "s3", "loop", "executeQuery", "sleep"})
          ~> (proc["w1"].pc \in {"returned", "raised"}
                /\ jobLog[proc["w1"].job.id] \in {"returned", "raised"})
    /\ [](\A w \in Workers :
            /\ Len(probe[w].exec) <= Len(proc[w].queryObjects)
            /\ Len(probe[w].post) <= Len(probe[w].exec)
            /\ \A k \in 1..Len(probe[w].exec) : probe[w].exec[k] = k)

C20_Witness ==
    /\ jobLog[1] = "returned"
    /\ probe["w1"].resp = <<"no_body", "no_response">>
    /\ proc["w1"].failureCount = 2
    /\ proc["w1"].result.status = "Completed with errors"
    /\ Len(probe["w1"].post) = 2

====
